---- MODULE Spec2Model ----
(***************************************************************************)
(* Model of disopy's queue cog (src/disopy/cogs/queue.py): the per-guild   *)
(* song queues, the cog-level playback fields (now_playing, loop,          *)
(* skip_next_autoplay), the slash commands and the "after" callback the    *)
(* voice client runs when a player ends.                                   *)
(*                                                                         *)
(* The voice client of discord.py is the environment.  Its behaviour as    *)
(* used by the cog: play() raises ClientException while a player is        *)
(* playing and otherwise installs a new player (replacing a paused one,    *)
(* whose callback is then never run); stop() ends the current player,      *)
(* whose thread then runs the "after" callback; is_playing() is false      *)
(* for a paused player; disconnect() stops the player.  The "after"        *)
(* callback is called by the player's own thread (AudioPlayer.run), while  *)
(* the command handlers are coroutines of the event loop.                  *)
(***************************************************************************)
EXTENDS Integers, Sequences, FiniteSets, TLC

\* ---- bounds of the model ------------------------------------------------
\* songs queued over all guilds, songs one command appends, callbacks of one
\* guild not yet run
MaxQueue == 2
MaxAdded == 1
MaxPending == 1

Guilds == {"g1", "g2"}
Songs == {"A", "B"}
None == "None"

\* Where the issuing user sits: in no voice channel, in the bot's channel
\* (or, when the bot is not connected, in some channel), in another channel.
UserVoice == {"none", "same", "other"}

\* What the cache and the Subsonic server answer when a song is resolved.
DownloadCases == {"hit", "download", "stream", "stream_fail", "error"}

\* The value of the "what" argument of /loop; NoChoice is the argument left out.
NoChoice == 0
LoopChoices == {NoChoice, 1, 2}

AddedSeqs == UNION {[1..n -> Songs] : n \in 0..MaxAdded}

VARIABLES
    queue,               \* Queue.queue: guild -> deque of songs
    now_playing,         \* QueueCog.now_playing (one field for the whole cog)
    loop,                \* QueueCog.loop: 0 none, 1 queue, 2 track
    skip_next_autoplay,  \* QueueCog.skip_next_autoplay
    voice_client,        \* guild -> guild.voice_client is not None
    player,              \* guild -> the voice client's audio player
    pending,             \* guild -> "after" callbacks not yet run, by cause
    last,                \* the handler that ran last and how it ended
    advancing            \* thread -> the play_queue call it is inside of

vars == <<queue, now_playing, loop, skip_next_autoplay, voice_client, player, pending, last,
          advancing>>

\* The threads that call play_queue: the event loop, which runs the command
\* handlers one after the other, and the thread of the voice client's player,
\* which calls "after".
Threads == {"event_loop", "player"}

\* A thread that is not inside play_queue.
NotAdvancing == [g |-> "none", song |-> None]

Idle == [st |-> "idle"]

RECURSIVE SumLen(_, _)
SumLen(f, S) ==
    IF S = {} THEN 0
    ELSE LET x == CHOOSE y \in S : TRUE IN Len(f[x]) + SumLen(f, S \ {x})

\* The program state as one value, threaded through the handlers below.
\* res/raised describe how the running handler ended.
State ==
    [queue |-> queue, now_playing |-> now_playing, loop |-> loop,
     skip |-> skip_next_autoplay, vc |-> voice_client, player |-> player,
     pending |-> pending, res |-> "done", raised |-> FALSE]

\* The mode a /loop command asks for.
Mode(op) == IF op = "loop_queue" THEN 1 ELSE IF op = "loop_track" THEN 2 ELSE 0

\* History for "the same /loop command twice in a row": when the handler that
\* ends in s repeats the accepted /loop command that ran just before it, what
\* that first command did to the mode it names; "none" otherwise.
Repeated(s, op, g) ==
    IF /\ op \in {"loop_queue", "loop_track"} /\ s.res = "done"
       /\ last.op = op /\ last.g = g /\ last.res = "done"
    THEN IF loop = Mode(op) THEN "on" ELSE "off"
    ELSE "none"

CommitThreads(s, op, g, cause, adv) ==
    /\ queue' = s.queue
    /\ now_playing' = s.now_playing
    /\ loop' = s.loop
    /\ skip_next_autoplay' = s.skip
    /\ voice_client' = s.vc
    /\ player' = s.player
    /\ pending' = s.pending
    /\ last' = [op |-> op, g |-> g, res |-> s.res, raised |-> s.raised, cause |-> cause,
                first |-> Repeated(s, op, g)]
    /\ advancing' = adv

\* A handler that runs from its first line to its last with no other thread
\* in between.
Commit(s, op, g, cause) == CommitThreads(s, op, g, cause, advancing)

Reject(s) == [s EXCEPT !.res = "rejected"]

\* ---- Queue ----------------------------------------------------------------
Queue_length(q) == Len(q)

\* deque.pop() in place of deque.popleft()
Queue_pop_right(q) ==
    IF q = << >>
    THEN [song |-> None, queue |-> q, raised |-> TRUE]
    ELSE [song |-> q[Len(q)], queue |-> SubSeq(q, 1, Len(q) - 1), raised |-> FALSE]

Queue_pop(q) ==
    IF q = << >>
    THEN [song |-> None, queue |-> q, raised |-> TRUE]
    ELSE [song |-> Head(q), queue |-> Tail(q), raised |-> FALSE]

Queue_append(q, song) == Append(q, song)

Queue_clear(q) == << >>

\* Song.duration, in seconds
Song_duration(song) == IF song = "A" THEN 1 ELSE 2

RECURSIVE Queue_duration(_)
Queue_duration(q) ==
    IF q = << >> THEN 0 ELSE Song_duration(Head(q)) + Queue_duration(Tail(q))

\* random.choices in place of random.sample: positions drawn with replacement
Queue_shuffle_with_replacement(q) ==
    {[i \in 1..Len(q) |-> q[p[i]]] : p \in [1..Len(q) -> 1..Len(q)]}

Queue_shuffle(q) ==
    {[i \in 1..Len(q) |-> q[p[i]]] :
        p \in {f \in [1..Len(q) -> 1..Len(q)] : \A i, j \in 1..Len(q) : f[i] = f[j] => i = j}}

\* ---- the voice client (discord.py) as the cog uses it ---------------------
is_playing(s, g) == s.player[g].st = "playing"

is_paused(s, g) == s.player[g].st = "paused"

\* voice_client.stop(): the player ends and its thread will run "after".
vc_stop(s, g, cause) ==
    IF s.player[g].st = "idle" THEN s
    ELSE [s EXCEPT !.player[g] = Idle, !.pending[g] = Append(@, cause)]

\* ---- QueueCog.get_voice_client --------------------------------------------
get_voice_client(s, g, uv, connect) ==
    IF uv = "none" THEN [ok |-> FALSE, s |-> Reject(s)]
    ELSE IF ~s.vc[g] THEN
        IF connect
        THEN [ok |-> TRUE,
              s |-> [s EXCEPT !.queue[g] = Queue_clear(@), !.now_playing = None,
                              !.loop = 0, !.vc[g] = TRUE]]
        ELSE [ok |-> FALSE, s |-> Reject(s)]
    ELSE IF uv = "other" THEN [ok |-> FALSE, s |-> Reject(s)]
    ELSE [ok |-> TRUE, s |-> s]

\* ---- QueueCog.play_queue --------------------------------------------------
\* Lines 269-283: TRUE iff the song file is there afterwards (else it raises).
resolve(dl) == dl \in {"hit", "download", "stream"}

\* Lines 269-275: how the request to the /download endpoint ends under the
\* answer dl; on a cache hit no request is made.  "http_error" is
\* requests.exceptions.HTTPError, "error" any other exception.
download(dl) ==
    IF dl = "hit" THEN "skipped"
    ELSE IF dl = "download" THEN "ok"
    ELSE IF dl = "error" THEN "error"
    ELSE "http_error"

\* Lines 278-282: the except clause that requests /stream.
use_stream(dl) == download(dl) = "http_error"

\* the queue popped in every loop mode
choose_song_always_pop(s, g) == Queue_pop(s.queue[g])

\* Line 257: the song to play and the queue it leaves.
choose_song(s, g) ==
    IF s.loop < 2 THEN Queue_pop(s.queue[g])
    ELSE [song |-> s.now_playing, queue |-> s.queue[g], raised |-> FALSE]

\* the popped song not appended again
requeue_never(s, q, song) == q

\* Lines 258-259.
requeue(s, q, song) == IF s.loop = 1 THEN Queue_append(q, song) ELSE q

\* Lines 285-305.
handoff(s, g, song) ==
    IF ~s.vc[g] THEN [s EXCEPT !.res = "novoice"]
    ELSE IF is_playing(s, g) THEN [s EXCEPT !.res = "busy", !.raised = TRUE]
    ELSE [s EXCEPT !.player[g] = [st |-> "playing"],
                   !.now_playing = song, !.res = "handoff"]

play_queue(s, g, exception, dl) ==
    IF exception THEN [s EXCEPT !.res = "sinkerr", !.raised = TRUE]
    ELSE IF Queue_length(s.queue[g]) = 0 /\ s.loop < 2 THEN [s EXCEPT !.res = "empty"]
    ELSE LET c == choose_song(s, g)
             s1 == [s EXCEPT !.queue[g] = requeue(s, c.queue, c.song)]
         IN  IF c.song = None THEN [s1 EXCEPT !.res = "nosong"]
             ELSE IF ~resolve(dl) THEN [s1 EXCEPT !.res = "dlfail", !.raised = TRUE]
             ELSE handoff(s1, g, c.song)

\* play_queue up to line 263: the song is chosen, not yet resolved.
play_queue_begin(s, g, exception) ==
    IF exception THEN [s |-> [s EXCEPT !.res = "sinkerr", !.raised = TRUE], song |-> None]
    ELSE IF Queue_length(s.queue[g]) = 0 /\ s.loop < 2
    THEN [s |-> [s EXCEPT !.res = "empty"], song |-> None]
    ELSE LET c == choose_song(s, g)
             s1 == [s EXCEPT !.queue[g] = requeue(s, c.queue, c.song)]
         IN  IF c.song = None THEN [s |-> [s1 EXCEPT !.res = "nosong"], song |-> None]
             ELSE [s |-> [s1 EXCEPT !.res = "resolving"], song |-> c.song]

\* play_queue from line 265 on, with the song chosen before.
play_queue_end(s, g, song, dl) ==
    IF ~resolve(dl) THEN [s EXCEPT !.res = "dlfail", !.raised = TRUE]
    ELSE handoff(s, g, song)

\* The answers of the cache and the server that an advance started in s can
\* meet: play_queue resolves a song only when it gets as far as line 267.
Downloads(s, g) ==
    IF \/ Queue_length(s.queue[g]) = 0 /\ s.loop < 2
       \/ s.loop = 2 /\ s.now_playing = None
    THEN {"hit"}
    ELSE DownloadCases

\* ---- QueueCog.play_next_callback ------------------------------------------
\* the callback without the test of lines 236-238
play_next_callback_unchecked(s, g, exception, dl) == play_queue(s, g, exception, dl)

play_next_callback(s, g, exception, dl) ==
    IF s.skip THEN [s EXCEPT !.skip = FALSE, !.res = "flag"]
    ELSE play_queue(s, g, exception, dl)

Init ==
    /\ queue = [g \in Guilds |-> << >>]
    /\ now_playing = None
    /\ loop = 0
    /\ skip_next_autoplay = FALSE
    /\ voice_client = [g \in Guilds |-> FALSE]
    /\ player = [g \in Guilds |-> Idle]
    /\ pending = [g \in Guilds |-> << >>]
    /\ last = [op |-> "init", g |-> "none", res |-> "done", raised |-> FALSE, cause |-> "none",
               first |-> "none"]
    /\ advancing = [t \in Threads |-> NotAdvancing]

\* The player of g reaches the end of its song; its thread will run "after".
TrackEnd(g) ==
    /\ player[g].st = "playing"
    /\ Len(pending[g]) < MaxPending
    /\ Commit(vc_stop(State, g, "end"), "trackend", g, "none")

\* The player thread runs the "after" lambda of line 297.
Callback(g) ==
    \E i \in 1..Len(pending[g]) :
        LET p == pending[g]
            s0 == [State EXCEPT !.pending[g] = SubSeq(p, 1, i - 1) \o SubSeq(p, i + 1, Len(p))]
        IN  IF s0.skip
            THEN Commit(play_next_callback(s0, g, FALSE, "hit"), "callback", g, p[i])
            ELSE \E exception \in BOOLEAN :
                    IF exception
                    THEN Commit(play_next_callback(s0, g, TRUE, "hit"), "callback", g, p[i])
                    ELSE \E dl \in Downloads(s0, g) :
                            Commit(play_next_callback(s0, g, FALSE, dl), "callback", g, p[i])

\* Lines 364-413 of play and 427-455 of playlist, after get_voice_client:
\* found is FALSE when the lookup ends the command with an error message.
enqueue_and_play(s, g, found, added, dl) ==
    IF ~found THEN [s EXCEPT !.res = "notfound"]
    ELSE LET s1 == [s EXCEPT !.queue[g] = @ \o added]
         IN  IF ~is_playing(s1, g) THEN play_queue(s1, g, FALSE, dl) ELSE s1

\* /play
Play(g) ==
    \E uv \in UserVoice :
        LET r == get_voice_client(State, g, uv, TRUE)
        IN  IF ~r.ok THEN Commit(r.s, "play", g, "none")
            ELSE \E found \in BOOLEAN :
                    IF ~found THEN Commit(enqueue_and_play(r.s, g, FALSE, << >>, "hit"), "play", g, "none")
                    ELSE \E added \in AddedSeqs :
                            /\ SumLen(r.s.queue, Guilds) + Len(added) <= MaxQueue
                            /\ \E dl \in Downloads([r.s EXCEPT !.queue[g] = @ \o added], g) :
                                  Commit(enqueue_and_play(r.s, g, TRUE, added, dl), "play", g, "none")

\* /playlist
Playlist(g) ==
    \E uv \in UserVoice :
        LET r == get_voice_client(State, g, uv, TRUE)
        IN  IF ~r.ok THEN Commit(r.s, "playlist", g, "none")
            ELSE \E found \in BOOLEAN :
                    IF ~found THEN Commit(enqueue_and_play(r.s, g, FALSE, << >>, "hit"), "playlist", g, "none")
                    ELSE \E added \in AddedSeqs :
                            /\ SumLen(r.s.queue, Guilds) + Len(added) <= MaxQueue
                            /\ \E dl \in Downloads([r.s EXCEPT !.queue[g] = @ \o added], g) :
                                  Commit(enqueue_and_play(r.s, g, TRUE, added, dl), "playlist", g, "none")

\* /stop with line 473 moved above the is_playing test of line 469
stop_flag_before_test(s, g, uv) ==
    LET r == get_voice_client(s, g, uv, FALSE)
    IN  IF ~r.ok THEN r.s
        ELSE IF ~is_playing(s, g) THEN Reject([s EXCEPT !.skip = TRUE])
        ELSE [vc_stop([s EXCEPT !.skip = TRUE], g, "stop") EXCEPT !.now_playing = None]

\* /stop
stop(s, g, uv) ==
    LET r == get_voice_client(s, g, uv, FALSE)
    IN  IF ~r.ok THEN r.s
        ELSE IF ~is_playing(s, g) THEN Reject(s)
        ELSE [vc_stop([s EXCEPT !.skip = TRUE], g, "stop") EXCEPT !.now_playing = None]

Stop(g) ==
    \E uv \in UserVoice :
        /\ Len(pending[g]) < MaxPending
        /\ Commit(stop(State, g, uv), "stop", g, "none")

\* /pause
pause(s, g, uv) ==
    LET r == get_voice_client(s, g, uv, FALSE)
    IN  IF ~r.ok THEN r.s
        ELSE IF ~is_playing(s, g) THEN Reject(s)
        ELSE [s EXCEPT !.player[g].st = "paused"]

Pause(g) ==
    /\ g \in Guilds
    /\ \E uv \in UserVoice : Commit(pause(State, g, uv), "pause", g, "none")

\* /skip
skip(s, g, uv) ==
    LET r == get_voice_client(s, g, uv, FALSE)
    IN  IF ~r.ok THEN r.s
        ELSE IF ~is_playing(s, g) THEN Reject(s)
        ELSE vc_stop(s, g, "end")

Skip(g) ==
    \E uv \in UserVoice :
        /\ Len(pending[g]) < MaxPending
        /\ Commit(skip(State, g, uv), "skip", g, "none")

\* /clear
clear(s, g, uv) ==
    LET r == get_voice_client(s, g, uv, FALSE)
    IN  IF ~r.ok THEN r.s
        ELSE [s EXCEPT !.queue[g] = Queue_clear(@)]

Clear(g) ==
    /\ g \in Guilds
    /\ \E uv \in UserVoice : Commit(clear(State, g, uv), "clear", g, "none")

\* /resume
resume(s, g, uv, dl) ==
    LET r == get_voice_client(s, g, uv, FALSE)
    IN  IF ~r.ok THEN r.s
        ELSE IF is_paused(s, g) THEN [s EXCEPT !.player[g].st = "playing", !.res = "unpaused"]
        ELSE IF Queue_length(s.queue[g]) = 0 THEN Reject(s)
        ELSE play_queue(s, g, FALSE, dl)

Resume(g) ==
    /\ g \in Guilds
    /\ \E uv \in UserVoice, dl \in Downloads(State, g) :
          Commit(resume(State, g, uv, dl), "resume", g, "none")

\* /leave
leave(s, g, uv) ==
    IF uv = "none" \/ ~s.vc[g] \/ uv = "other" THEN Reject(s)
    ELSE [vc_stop(s, g, "end") EXCEPT !.vc[g] = FALSE]

Leave(g) ==
    \E uv \in UserVoice :
        /\ Len(pending[g]) < MaxPending
        /\ Commit(leave(State, g, uv), "leave", g, "none")

\* /loop without the branch of lines 608-611 that switches looping off
loop_command_no_toggle(s, g, uv, what) ==
    LET r == get_voice_client(s, g, uv, FALSE)
    IN  IF ~r.ok THEN r.s
        ELSE IF what = NoChoice THEN [s EXCEPT !.res = "attrerror", !.raised = TRUE]
        ELSE IF Queue_length(s.queue[g]) = 0 /\ what # 2 THEN Reject(s)
        ELSE IF s.now_playing = None /\ what = 2 THEN Reject(s)
        ELSE IF what = 1 /\ s.now_playing # None THEN [s EXCEPT !.res = "typeerror", !.raised = TRUE]
        ELSE [s EXCEPT !.loop = what]

\* /loop
loop_command(s, g, uv, what) ==
    LET r == get_voice_client(s, g, uv, FALSE)
    IN  IF ~r.ok THEN r.s
        \* the default of "what" is the int 1, which has no .value
        ELSE IF what = NoChoice THEN [s EXCEPT !.res = "attrerror", !.raised = TRUE]
        ELSE IF Queue_length(s.queue[g]) = 0 /\ what # 2 THEN Reject(s)
        ELSE IF s.now_playing = None /\ what = 2 THEN Reject(s)
        ELSE IF what = s.loop THEN [s EXCEPT !.loop = 0]
        \* line 613 subscripts the Queue object, which has no __getitem__
        ELSE IF what = 1 /\ s.now_playing # None THEN [s EXCEPT !.res = "typeerror", !.raised = TRUE]
        ELSE [s EXCEPT !.loop = what]

LoopCommand(g) ==
    /\ g \in Guilds
    /\ \E uv \in UserVoice, what \in LoopChoices :
          Commit(loop_command(State, g, uv, what),
                 IF what = 2 THEN "loop_track" ELSE "loop_queue", g, "none")

\* /shuffle
ShuffleCommand(g) ==
    \E uv \in UserVoice :
        LET r == get_voice_client(State, g, uv, FALSE)
        IN  IF ~r.ok THEN Commit(r.s, "shuffle", g, "none")
            ELSE IF Queue_length(queue[g]) = 0 THEN Commit(Reject(State), "shuffle", g, "none")
            ELSE \E q \in Queue_shuffle(queue[g]) :
                    Commit([State EXCEPT !.queue[g] = q], "shuffle", g, "none")

\* /volume: negative is TRUE for a volume below 0
volume(s, g, uv, negative) ==
    LET r == get_voice_client(s, g, uv, FALSE)
    IN  IF ~r.ok THEN r.s
        ELSE IF negative THEN Reject(s)
        ELSE IF s.player[g].st = "idle" THEN Reject(s)
        ELSE s

Volume(g) ==
    /\ g \in Guilds
    /\ \E uv \in UserVoice, negative \in BOOLEAN :
          Commit(volume(State, g, uv, negative), "volume", g, "none")

\* One guild uses the bot, with every command.
Solo == {"g1"}

Next ==
    \/ \E g \in Solo : TrackEnd(g)
    \/ \E g \in Solo : Callback(g)
    \/ \E g \in Solo : Play(g)
    \/ \E g \in Solo : Playlist(g)
    \/ \E g \in Solo : Stop(g)
    \/ \E g \in Solo : Pause(g)
    \/ \E g \in Solo : Skip(g)
    \/ \E g \in Solo : Clear(g)
    \/ \E g \in Solo : Resume(g)
    \/ \E g \in Solo : Leave(g)
    \/ \E g \in Solo : LoopCommand(g)
    \/ \E g \in Solo : ShuffleCommand(g)
    \/ \E g \in Solo : Volume(g)

Spec == Init /\ [][Next]_vars

\* Two guilds use the bot at once, with the commands that start and end playback.
NextGuilds ==
    \/ \E g \in Guilds : TrackEnd(g)
    \/ \E g \in Guilds : Callback(g)
    \/ \E g \in Guilds : Play(g)
    \/ \E g \in Guilds : Stop(g)
    \/ \E g \in Guilds : Skip(g)
    \/ \E g \in Guilds : Leave(g)

SpecGuilds == Init /\ [][NextGuilds]_vars

\* ---- play_queue as the two threads run it ----------------------------------
\* play_queue has no await and takes no lock.  A thread is inside it from its
\* call until it returns; resolving the song (lines 269-281, a blocking
\* download) is where it stays longest.

\* The thread t is inside play_queue for g, holding the song it chose.
Inside(adv, t, g, song) ==
    IF song = None THEN adv ELSE [adv EXCEPT ![t] = [g |-> g, song |-> song]]

\* The player thread calls "after" (line 297) and gets as far as line 263.
CallbackBegin(g) ==
    /\ advancing["player"] = NotAdvancing
    /\ \E i \in 1..Len(pending[g]) :
          LET p == pending[g]
              s0 == [State EXCEPT !.pending[g] = SubSeq(p, 1, i - 1) \o SubSeq(p, i + 1, Len(p))]
          IN  IF s0.skip
              THEN Commit([s0 EXCEPT !.skip = FALSE, !.res = "flag"], "callback", g, p[i])
              ELSE \E exception \in BOOLEAN :
                      LET b == play_queue_begin(s0, g, exception)
                      IN  CommitThreads(b.s, "callback", g, p[i],
                                        Inside(advancing, "player", g, b.song))

\* The event loop runs /play and gets as far as line 263 of play_queue.
PlayBegin(g) ==
    /\ advancing["event_loop"] = NotAdvancing
    /\ \E uv \in UserVoice :
          LET r == get_voice_client(State, g, uv, TRUE)
          IN  IF ~r.ok THEN Commit(r.s, "play", g, "none")
              ELSE \E found \in BOOLEAN :
                      IF ~found THEN Commit([r.s EXCEPT !.res = "notfound"], "play", g, "none")
                      ELSE \E added \in AddedSeqs :
                              /\ SumLen(r.s.queue, Guilds) + Len(added) <= MaxQueue
                              /\ LET s1 == [r.s EXCEPT !.queue[g] = @ \o added]
                                     b == play_queue_begin(s1, g, FALSE)
                                 IN  IF is_playing(s1, g) THEN Commit(s1, "play", g, "none")
                                     ELSE CommitThreads(b.s, "play", g, "none",
                                                        Inside(advancing, "event_loop", g, b.song))

\* The event loop runs /resume and gets as far as line 263 of play_queue.
ResumeBegin(g) ==
    /\ advancing["event_loop"] = NotAdvancing
    /\ \E uv \in UserVoice :
          LET r == get_voice_client(State, g, uv, FALSE)
              b == play_queue_begin(State, g, FALSE)
          IN  IF ~r.ok THEN Commit(r.s, "resume", g, "none")
              ELSE IF is_paused(State, g)
              THEN Commit([State EXCEPT !.player[g].st = "playing", !.res = "unpaused"],
                          "resume", g, "none")
              ELSE IF Queue_length(queue[g]) = 0 THEN Commit(Reject(State), "resume", g, "none")
              ELSE CommitThreads(b.s, "resume", g, "none",
                                 Inside(advancing, "event_loop", g, b.song))

\* The thread t goes on from line 265 to the end of play_queue.
AdvanceEnd(t) ==
    /\ advancing[t] # NotAdvancing
    /\ \E dl \in DownloadCases :
          CommitThreads(play_queue_end(State, advancing[t].g, advancing[t].song, dl),
                        IF t = "player" THEN "callback" ELSE "command", advancing[t].g, "none",
                        [advancing EXCEPT ![t] = NotAdvancing])

NextThreads ==
    \/ \E g \in Solo : TrackEnd(g)
    \/ \E g \in Solo : CallbackBegin(g)
    \/ \E g \in Solo : PlayBegin(g)
    \/ \E g \in Solo : ResumeBegin(g)
    \/ \E t \in Threads : AdvanceEnd(t)

SpecThreads == Init /\ [][NextThreads]_vars

\* ---- properties -----------------------------------------------------------

\* C1: a handler run for guild a (a command or a track-finished callback)
\* leaves the queue of every other guild b, and the now_playing, loop and
\* skip_next_autoplay that b sees, unchanged.
TenantIsolation ==
    [][\A a \in Guilds : last'.g = a =>
          \A b \in Guilds \ {a} :
              /\ queue'[b] = queue[b]
              /\ now_playing' = now_playing
              /\ loop' = loop
              /\ skip_next_autoplay' = skip_next_autoplay]_vars

\* C2: now_playing is set iff the guild's player holds a track (playing or
\* paused); the moment between a player's end and its callback is left out.
NowPlayingIffLoaded ==
    \A g \in Solo :
        pending[g] = << >> => ((now_playing # None) <=> (player[g].st # "idle"))

\* C3: an advance that finds the queue empty while not looping a track sets
\* now_playing to None and hands nothing to the voice client.
EmptyAdvanceClears ==
    [][last'.res = "empty" => (now_playing' = None /\ player' = player)]_vars

\* C4: the callback of a track ended by /stop consumes the flag and does not
\* advance (no pop, no handoff); a callback with any other cause advances.
StopSuppressesOnce ==
    [][last'.op = "callback" =>
          IF last'.cause = "stop"
          THEN /\ last'.res = "flag"
               /\ ~skip_next_autoplay'
               /\ queue' = queue
               /\ player' = player
          ELSE last'.res # "flag"]_vars

\* The handler that ran last was an advance started without appending:
\* the track-finished callback or /resume.
PlainAdvance(g) == last'.g = g /\ last'.op \in {"callback", "resume"}

\* C5: in QUEUE loop mode an advance that reaches the voice client plays the
\* head of the queue and moves it to the tail, so the queue rotates.
QueueLoopRotates ==
    [][\A g \in Guilds :
          (PlainAdvance(g) /\ last'.res = "handoff" /\ loop = 1) =>
              /\ queue[g] # << >>
              /\ now_playing' = Head(queue[g])
              /\ queue'[g] = Append(Tail(queue[g]), Head(queue[g]))
              /\ player'[g].st = "playing"
              /\ loop' = 1]_vars

QueueLoopRotated ==
    \E g \in Guilds :
        /\ last.op = "callback" /\ last.g = g /\ last.res = "handoff" /\ last.cause = "end"
        /\ loop = 1
        /\ Len(queue[g]) >= 2
        /\ queue[g][Len(queue[g])] = now_playing
        /\ queue[g][1] # now_playing

\* C6: in TRACK loop mode an advance neither pops nor appends and leaves
\* now_playing as it is; when it reaches the voice client the song played is
\* now_playing.
TrackLoopReplays ==
    [][\A g \in Guilds :
          (PlainAdvance(g) /\ loop = 2
              /\ last'.res \in {"nosong", "dlfail", "novoice", "busy", "handoff"}) =>
              /\ queue' = queue
              /\ now_playing' = now_playing
              /\ loop' = 2
              /\ last'.res = "handoff" => (now_playing # None /\ player'[g].st = "playing")]_vars

TrackLoopReplayed ==
    \E g \in Guilds :
        /\ last.op = "callback" /\ last.g = g /\ last.res = "handoff" /\ last.cause = "end"
        /\ loop = 2
        /\ queue[g] # << >>
        /\ now_playing # None
        /\ player[g].st = "playing"

\* C7: in NONE loop mode an advance that reaches the voice client removes
\* exactly the head of the queue and makes it now_playing; the other songs
\* keep their order.  For /play and /playlist on a connected bot the queue is
\* the old queue followed by the songs the command appended.
FifoAdvance ==
    [][\A g \in Guilds :
          (last'.g = g /\ last'.res = "handoff" /\ loop = 0) =>
              /\ PlainAdvance(g) =>
                    /\ queue[g] # << >>
                    /\ now_playing' = Head(queue[g])
                    /\ queue'[g] = Tail(queue[g])
              /\ (last'.op \in {"play", "playlist"} /\ voice_client[g]) =>
                    \E added \in AddedSeqs :
                        /\ queue[g] \o added # << >>
                        /\ now_playing' = Head(queue[g] \o added)
                        /\ queue'[g] = Tail(queue[g] \o added)
              /\ player'[g].st = "playing"]_vars

FifoAdvanced ==
    \E g \in Guilds :
        /\ last.op = "callback" /\ last.g = g /\ last.res = "handoff" /\ last.cause = "end"
        /\ loop = 0
        /\ now_playing = "B"
        /\ queue[g] = <<"A">>

\* C8: when resolving the song fails during an advance (the download raises,
\* or the callback is handed an error), no exception leaves play_queue and
\* now_playing is None afterwards.
ResolutionFailureContained ==
    [][last'.res \in {"dlfail", "sinkerr"} => (~last'.raised /\ now_playing' = None)]_vars

\* C9: a command that connects the bot to a guild leaves nothing of an earlier
\* session: loop is 0, skip_next_autoplay is FALSE, and the queue and
\* now_playing hold only songs the command itself appended.
FreshConnectResets ==
    [][\A g \in Guilds :
          (~voice_client[g] /\ voice_client'[g]) =>
              /\ loop' = 0
              /\ ~skip_next_autoplay'
              /\ \E added \in AddedSeqs :
                    \/ queue'[g] = added /\ now_playing' = None
                    \/ /\ added # << >>
                       /\ queue'[g] = Tail(added)
                       /\ now_playing' = Head(added)]_vars

\* C10 as stated: the same /loop command accepted twice in a row leaves loop 0.
LoopTwiceIsNone == last.first # "none" => loop = 0

\* C10 amended: the same /loop command accepted twice in a row, the first of
\* them switching its mode on, leaves loop 0.
LoopOnOffIsNone == last.first = "on" => loop = 0

LoopSwitchedOnThenOff ==
    /\ last.first = "on"
    /\ last.op = "loop_track"
    /\ now_playing # None
    /\ loop = 0

\* C11: /loop queue given by a user in the bot's channel while a track plays
\* and loop is not QUEUE sets loop to QUEUE and appends now_playing to the
\* queue unless it is the queue's last element.
LoopQueueAppendsPlaying ==
    \A g \in Solo :
        (/\ voice_client[g] /\ is_playing(State, g) /\ now_playing # None
         /\ loop # 1 /\ queue[g] # << >>) =>
            LET s == loop_command(State, g, "same", 1)
            IN  /\ s.loop = 1
                /\ s.queue[g] = IF queue[g][Len(queue[g])] = now_playing
                                THEN queue[g]
                                ELSE Append(queue[g], now_playing)

\* C12: /loop queue given by a user in the bot's channel with the queue empty
\* and a track playing is not rejected.
LoopQueueOnEmptyAccepted ==
    \A g \in Solo :
        (/\ voice_client[g] /\ is_playing(State, g) /\ now_playing # None
         /\ queue[g] = << >>) =>
            loop_command(State, g, "same", 1).res # "rejected"

\* C13: a command that ends with a user-input error message (nothing playing
\* for /stop, /pause, /skip; empty queue for /resume, /shuffle, /loop queue;
\* nothing playing for /loop track; negative volume; user not in the bot's
\* channel) leaves queue, now_playing, loop and skip_next_autoplay unchanged.
RejectedChangesNothing ==
    [][last'.res = "rejected" =>
          /\ queue' = queue
          /\ now_playing' = now_playing
          /\ loop' = loop
          /\ skip_next_autoplay' = skip_next_autoplay]_vars

StopRejectedWhilePaused ==
    \E g \in Solo :
        /\ last.op = "stop" /\ last.g = g /\ last.res = "rejected"
        /\ player[g].st = "paused"
        /\ now_playing # None
        /\ queue[g] # << >>
        /\ loop = 2
        /\ ~skip_next_autoplay

\* C14: an advance that finds the guild's voice client missing changes
\* neither the queue nor now_playing nor loop, and raises nothing.
MissingVoiceClientIsNoOp ==
    [][last'.res = "novoice" =>
          /\ queue' = queue
          /\ now_playing' = now_playing
          /\ loop' = loop
          /\ ~last'.raised]_vars

\* C15: Queue.duration is the sum of the durations of exactly the queued
\* songs and does not count the song that is playing, in QUEUE loop as
\* without a loop: an advance that hands the head of the queue to the voice
\* client leaves a Queue.duration that is lower by that song's duration.
DurationExcludesNowPlaying ==
    [][\A g \in Guilds :
          (PlainAdvance(g) /\ last'.res = "handoff" /\ loop < 2) =>
              /\ now_playing' = Head(queue[g])
              /\ Queue_duration(queue'[g]) =
                     Queue_duration(queue[g]) - Song_duration(now_playing')]_vars

\* How often song x occurs in q.
Count(q, x) == Cardinality({i \in 1..Len(q) : q[i] = x})

\* C16: an accepted /shuffle leaves a queue of the same length that holds
\* every song as often as before; a queue of one song is left as it is, and
\* nothing else changes.  /shuffle is rejected on an empty queue; Queue.shuffle
\* of an empty queue is the empty queue.
ShufflePermutes ==
    [][/\ Queue_shuffle(<< >>) = {<< >>}
       /\ \A g \in Guilds :
             (last'.op = "shuffle" /\ last'.g = g /\ last'.res = "done") =>
                 /\ Len(queue'[g]) = Len(queue[g])
                 /\ \A x \in Songs : Count(queue'[g], x) = Count(queue[g], x)
                 /\ Len(queue[g]) <= 1 => queue'[g] = queue[g]
                 /\ now_playing' = now_playing /\ loop' = loop]_vars

ShuffledTwoSongs ==
    \E g \in Solo :
        /\ last.op = "shuffle" /\ last.g = g /\ last.res = "done"
        /\ queue[g] = <<"B", "A">>

\* C17: Queue.pop of an empty queue returns None, leaves the queue empty and
\* raises nothing.
PopOfEmptyIsNone ==
    \A g \in Guilds :
        queue[g] = << >> =>
            LET r == Queue_pop(queue[g])
            IN  r.song = None /\ r.queue = << >> /\ ~r.raised

\* C19: while the guild's player holds a track (playing or paused), /play and
\* /playlist only append to the queue and /resume leaves the queue as it is;
\* none of them pops the queue or replaces now_playing.
NoAdvanceWhileLoaded ==
    [][\A g \in Guilds :
          (/\ last'.g = g /\ last'.op \in {"play", "playlist", "resume"}
           /\ voice_client[g] /\ player[g].st # "idle") =>
              /\ now_playing' = now_playing
              /\ last'.op = "resume" => queue'[g] = queue[g]
              /\ last'.op # "resume" =>
                    \E added \in AddedSeqs : queue'[g] = queue[g] \o added]_vars

\* How a handler ends that has called play_queue.
PlayQueueResults == {"sinkerr", "empty", "nosong", "dlfail", "novoice", "busy", "handoff"}

\* C20 as stated: every advance that begins with skip_next_autoplay set, be it
\* the callback's or one that /play, /playlist or /resume starts on a
\* connected bot, clears the flag, pops nothing and hands nothing to the
\* voice client.
EveryAdvanceChecksFlag ==
    [][\A g \in Guilds :
          (/\ last'.g = g /\ skip_next_autoplay
           /\ \/ last'.op = "callback"
              \/ /\ last'.op \in {"play", "playlist", "resume"}
                 /\ last'.res \in PlayQueueResults
                 /\ voice_client[g]) =>
              /\ ~skip_next_autoplay'
              /\ player' = player
              /\ IF last'.op = "play" \/ last'.op = "playlist"
                 THEN \E added \in AddedSeqs : queue'[g] = queue[g] \o added
                 ELSE queue' = queue]_vars

\* C20 amended: the callback tests skip_next_autoplay first, and when it is
\* set clears it and changes nothing else; /play, /playlist and /resume never
\* read or change the flag.
CallbackChecksFlag ==
    [][\A g \in Guilds : last'.g = g =>
          /\ (last'.op = "callback" /\ skip_next_autoplay) =>
                /\ last'.res = "flag"
                /\ ~skip_next_autoplay'
                /\ queue' = queue
                /\ player' = player
                /\ now_playing' = now_playing
          /\ last'.op \in {"play", "playlist", "resume"} =>
                skip_next_autoplay' = skip_next_autoplay]_vars

FlagConsumedByCallback ==
    \E g \in Solo :
        /\ last.op = "callback" /\ last.g = g /\ last.res = "flag" /\ last.cause = "stop"
        /\ ~skip_next_autoplay
        /\ queue[g] # << >>
        /\ player[g].st = "idle"

\* C18: at no time are two threads inside play_queue for the same guild.
AdvancesSerialized ==
    \A g \in Guilds :
        Cardinality({t \in Threads : advancing[t].g = g}) <= 1

\* C21: in an advance that resolves a song, every failure of the request to
\* /download is followed by a request to /stream, and the advance fails on
\* resolving only after /stream was requested.
DownloadFailureFallsBack ==
    \A g \in Solo :
        \A dl \in Downloads(State, g) :
            LET s == play_queue(State, g, FALSE, dl)
            IN  /\ download(dl) \in {"http_error", "error"} => use_stream(dl)
                /\ s.res = "dlfail" => use_stream(dl)

\* C22: whenever loop is TRACK, now_playing is set.
TrackLoopHasNowPlaying == loop = 2 => now_playing # None

\* C23: with loop NONE, an advance started by the callback or by /resume
\* either hands the head of the queue to the voice client or, when it ends
\* without a handoff, leaves the queue as it was.
NoSongLost ==
    [][\A g \in Guilds :
          (PlainAdvance(g) /\ loop = 0 /\ last'.res \in PlayQueueResults) =>
              IF last'.res = "handoff"
              THEN /\ queue[g] # << >>
                   /\ queue'[g] = Tail(queue[g])
                   /\ now_playing' = Head(queue[g])
              ELSE queue'[g] = queue[g]]_vars

\* C24: in every state with the bot connected, the player idle, no callback
\* pending and the queue non-empty, /resume from the bot's channel with the
\* song resolved hands a song to the voice client and sets now_playing.
ResumeRecoversPlayback ==
    \A g \in Solo :
        (/\ voice_client[g] /\ player[g].st = "idle" /\ pending[g] = << >>
         /\ queue[g] # << >>) =>
            \A dl \in {d \in DownloadCases : resolve(d)} :
                LET s == resume(State, g, "same", dl)
                IN  /\ s.res = "handoff"
                    /\ s.player[g].st = "playing"
                    /\ s.now_playing # None
====
